---- MODULE Spec2Model ----
(***************************************************************************)
(* Model of the SMS OTP worker (sms-otp-worker/src/index.ts): the          *)
(* Firestore document codec, the token signer, the OTP generator and the   *)
(* fetch handler with its send and verify branches, run by concurrent      *)
(* requests (Spec) or by requests arriving one after another (SpecSeq)     *)
(* against one user document held by the remote document store; the        *)
(* helpers are also applied on their own (SpecCodec, SpecSigner, SpecOtp). *)
(* SpecIprog is the fetch handler of the iProgSMS worker (unnamed/part_000)*)
(*                                                                         *)
(* JavaScript values are tagged records [t |-> kind, v |-> payload];       *)
(* strings are sequences of characters (one-character TLA+ strings).       *)
(* Time is in milliseconds since the epoch, as Date.now() returns it.      *)
(***************************************************************************)
EXTENDS Integers, Sequences, FiniteSets, TLC

(* ------------------------------ bounds -------------------------------- *)

\* the clock advances in steps of OtpTtlMs \div TicksPerTtl milliseconds
TicksPerTtl == 1

\* the clock stops advancing after MaxTicks steps
MaxTicks == 2

\* tokens are issued during the first MaxIssueSec + 1 seconds of the epoch
MaxIssueSec == 20

\* Math.random() returns k / RandDen for 0 <= k < RandDen
RandDen == 2000000

\* the generator is applied to the RandEdge + 1 smallest and largest
\* numerators and to every multiple of RandStride in between
RandEdge == 100

RandStride == 9973

(* --------------------------- JavaScript values ------------------------ *)

Undefined == [t |-> "undefined", v |-> 0]

Null == [t |-> "null", v |-> 0]

Str(s) == [t |-> "string", v |-> s]

Num(n) == [t |-> "number", v |-> n]

NaN == [t |-> "NaN", v |-> 0]

Bool(b) == [t |-> "boolean", v |-> b]

DateOf(ms) == [t |-> "Date", v |-> ms]

\* a Date whose time value is NaN
InvalidDate == [t |-> "InvalidDate", v |-> 0]

Obj(f) == [t |-> "object", v |-> f]

\* obj.key : undefined when the property is missing
Get(obj, key) == IF key \in DOMAIN obj.v THEN obj.v[key] ELSE Undefined

\* ToBoolean, as used by !x and by x && y
Truthy(x) ==
  CASE x.t = "undefined" -> FALSE
    [] x.t = "null"      -> FALSE
    [] x.t = "NaN"       -> FALSE
    [] x.t = "string"    -> x.v # << >>
    [] x.t = "number"    -> x.v # 0
    [] x.t = "boolean"   -> x.v
    [] OTHER             -> TRUE

\* a === b
StrictEq(a, b) == a.t = b.t /\ a.t # "NaN" /\ a.v = b.v

\* a > b for the operand kinds that convert to a number (Date, number);
\* any other operand converts to NaN or compares as a string, never greater
\* than a Date
GreaterThan(a, b) ==
  /\ a.t \in {"Date", "number"}
  /\ b.t \in {"Date", "number"}
  /\ a.v > b.v

(* ------------------------------ strings ------------------------------- *)

DigitChars == <<"0", "1", "2", "3", "4", "5", "6", "7", "8", "9">>

IsDigit(c) == \E i \in 1..10 : DigitChars[i] = c

DigitVal(c) == (CHOOSE i \in 1..10 : DigitChars[i] = c) - 1

RECURSIVE Digits(_)
Digits(n) == IF n < 10 THEN <<DigitChars[n + 1]>>
             ELSE Append(Digits(n \div 10), DigitChars[(n % 10) + 1])

\* Number.prototype.toString() of an integer
NumToString(n) == IF n < 0 THEN <<"-">> \o Digits(0 - n) ELSE Digits(n)

RECURSIVE DigitsVal(_)
DigitsVal(s) == IF s = << >> THEN 0
                ELSE 10 * DigitsVal(SubSeq(s, 1, Len(s) - 1)) + DigitVal(s[Len(s)])

RECURSIVE DigitPrefix(_)
DigitPrefix(s) == IF s = << >> \/ ~IsDigit(Head(s)) THEN << >>
                  ELSE <<Head(s)>> \o DigitPrefix(Tail(s))

\* parseInt(s): optional sign, then the longest prefix of decimal digits
ParseInt(s) ==
  LET neg  == s # << >> /\ Head(s) = "-"
      rest == IF s # << >> /\ Head(s) \in {"-", "+"} THEN Tail(s) ELSE s
      ds   == DigitPrefix(rest)
  IN  IF ds = << >> THEN NaN
      ELSE Num(IF neg THEN 0 - DigitsVal(ds) ELSE DigitsVal(ds))

\* n written with exactly w digits
Pad(n, w) == LET d == Digits(n)
             IN  [i \in 1..(w - Len(d)) |-> "0"] \o d

MsPerSecond == 1000
MsPerMinute == 60 * MsPerSecond
MsPerHour == 60 * MsPerMinute
MsPerDay == 24 * MsPerHour

\* Date.prototype.toISOString(), for instants of the first day of the epoch
ToISOString(ms) ==
  <<"1", "9", "7", "0", "-", "0", "1", "-", "0", "1", "T">>
    \o Pad(ms \div MsPerHour, 2) \o <<":">>
    \o Pad((ms % MsPerHour) \div MsPerMinute, 2) \o <<":">>
    \o Pad((ms % MsPerMinute) \div MsPerSecond, 2) \o <<".">>
    \o Pad(ms % MsPerSecond, 3) \o <<"Z">>

\* new Date(iso) for the strings ToISOString produces; Invalid Date otherwise
ParseDate(s) ==
  IF /\ Len(s) = 24
     /\ SubSeq(s, 1, 11) = <<"1", "9", "7", "0", "-", "0", "1", "-", "0", "1", "T">>
     /\ s[14] = ":" /\ s[17] = ":" /\ s[20] = "." /\ s[24] = "Z"
     /\ \A i \in {12, 13, 15, 16, 18, 19, 21, 22, 23} : IsDigit(s[i])
  THEN DateOf(DigitsVal(SubSeq(s, 12, 13)) * MsPerHour
              + DigitsVal(SubSeq(s, 15, 16)) * MsPerMinute
              + DigitsVal(SubSeq(s, 18, 19)) * MsPerSecond
              + DigitsVal(SubSeq(s, 21, 23)))
  ELSE InvalidDate

(* ---------------------------- document codec -------------------------- *)

\* variant: a tag is recognised by the truthiness of its payload
DecodeValue_Truthy(val) ==
  IF "stringValue" \in DOMAIN val /\ val.stringValue # << >> THEN Str(val.stringValue)
  ELSE IF "integerValue" \in DOMAIN val /\ val.integerValue # << >>
    THEN ParseInt(val.integerValue)
  ELSE IF "booleanValue" \in DOMAIN val /\ val.booleanValue THEN Bool(val.booleanValue)
  ELSE IF "timestampValue" \in DOMAIN val /\ val.timestampValue # << >>
    THEN ParseDate(val.timestampValue)
  ELSE IF "nullValue" \in DOMAIN val THEN Null
  ELSE Undefined

\* one Firestore field value -> native value (undefined: no known tag)
DecodeValue(val) ==
  IF "stringValue" \in DOMAIN val THEN Str(val.stringValue)
  ELSE IF "integerValue" \in DOMAIN val THEN ParseInt(val.integerValue)
  ELSE IF "booleanValue" \in DOMAIN val THEN Bool(val.booleanValue)
  ELSE IF "timestampValue" \in DOMAIN val THEN ParseDate(val.timestampValue)
  ELSE IF "nullValue" \in DOMAIN val THEN Null
  ELSE Undefined

firestoreToObject(doc) ==
  IF "fields" \notin DOMAIN doc THEN Null
  ELSE LET known == {k \in DOMAIN doc.fields : DecodeValue(doc.fields[k]) # Undefined}
       IN  Obj([k \in known |-> DecodeValue(doc.fields[k])])

EncodableKinds == {"string", "number", "boolean", "Date", "null"}

\* one native value -> Firestore field value
EncodeValue(value) ==
  CASE value.t = "string"  -> [stringValue |-> value.v]
    [] value.t = "number"  -> [integerValue |-> NumToString(value.v)]
    [] value.t = "boolean" -> [booleanValue |-> value.v]
    [] value.t = "Date"    -> [timestampValue |-> ToISOString(value.v)]
    [] value.t = "null"    -> [nullValue |-> Null]

objectToFirestore(obj) ==
  LET known == {k \in DOMAIN obj.v : obj.v[k].t \in EncodableKinds}
  IN  [fields |-> [k \in known |-> EncodeValue(obj.v[k])]]

\* variant: the scaled random value is rounded up
generateOtp_Ceil(k) ==
  LET a    == k * 900
      rest == (a % RandDen) * 1000
      up   == IF rest % RandDen = 0 THEN 0 ELSE 1
  IN  NumToString(100000 + (a \div RandDen) * 1000 + rest \div RandDen + up)

\* Math.floor(100000 + Math.random() * 900000).toString(), Math.random()
\* having returned k / RandDen. The product k * 900000 is taken in two
\* factors, 900 and 1000, so that it stays within 32 bits:
\* floor(1000 * a / d) = 1000 * (a div d) + floor(1000 * (a mod d) / d)
generateOtp(k) ==
  LET a    == k * 900
      rest == (a % RandDen) * 1000
  IN  NumToString(100000 + (a \div RandDen) * 1000 + rest \div RandDen)

\* 5 * 60 * 1000 milliseconds
OtpTtlMs == 5 * 60 * 1000

(* ------------------------- requests and responses --------------------- *)

\* the concurrent invocations of fetch, numbered in order of arrival
Reqs == {1, 2}

TickMs == OtpTtlMs \div TicksPerTtl

\* the numerators the random source is sampled at
RandSamples == {0, RandDen - 1}

UserId == <<"u", "1">>

Phone == <<"+", "1", "5", "5", "5">>

SendAction == <<"s", "e", "n", "d">>

VerifyAction == <<"v", "e", "r", "i", "f", "y">>

OtherAction == <<"p", "i", "n", "g">>

OtpFields == {"currentOtpCode", "otpExpiresAt"}

\* the JSON bodies the requests are drawn from
Bodies ==
  {Obj([action |-> Str(SendAction)])}
    \cup {Obj([userId |-> Str(UserId), action |-> Str(OtherAction)])}
    \cup {Obj([userId |-> Str(UserId), action |-> Str(SendAction)])}
    \cup {Obj([userId |-> Str(UserId), action |-> Str(SendAction), phone |-> Str(Phone)])}
    \cup {Obj([userId |-> Str(UserId), action |-> Str(VerifyAction)])}
    \cup {Obj([userId |-> Str(UserId), action |-> Str(VerifyAction), otp |-> Str(generateOtp(k))])
            : k \in RandSamples}

\* the requests the handler is invoked with
Requests ==
  {[method |-> "POST", body |-> b] : b \in Bodies}
    \cup {[method |-> "GET", body |-> Obj(<< >>)]}

NoResponse == [status |-> 0, body |-> [none |-> TRUE]]

Response(status, body) == [status |-> status, body |-> body]

JsonError(status, text) == Response(status, [error |-> text])

\* the catch block: 500 with the thrown error's message as details
InternalError(message) ==
  Response(500, [error |-> "Internal server error", details |-> message])

IdentityNotFound == JsonError(404, "User not found")

NotEligible == JsonError(403, "2FA not enabled or phone not verified")

MissingDestination == JsonError(400, "Phone required")

MissingCode == JsonError(400, "OTP required")

InvalidOrExpired ==
  Response(400, [success |-> FALSE, message |-> "Invalid or expired OTP"])

SendSuccess ==
  Response(200, [success |-> TRUE, message |-> "OTP sent via SMS",
                 expiresIn |-> "5 minutes"])

VerifySuccess ==
  Response(200, [success |-> TRUE, message |-> "OTP verified successfully"])

\* variant: the template without the code
SmsMessage_NoCode(otpCode) ==
  <<"Your verification code is ready. It will expire in 5 minutes.">>

\* `Your verification code is: ${otpCode}. It will expire in 5 minutes.`
SmsMessage(otpCode) ==
  <<"Your verification code is: ">> \o otpCode
    \o <<". It will expire in 5 minutes.">>

NoCall == [svc |-> "none", mask |-> {}, body |-> << >>, to |-> << >>, text |-> << >>]

GetCall == [NoCall EXCEPT !.svc = "GET"]

\* PATCH /users/{userId}?updateMask.fieldPaths=...&updateMask.fieldPaths=...
PatchCall(mask, body) == [NoCall EXCEPT !.svc = "PATCH", !.mask = mask, !.body = body]

SmsCall(to, text) == [NoCall EXCEPT !.svc = "SMS", !.to = to, !.text = text]

(* ------------------------------- the store ---------------------------- *)

DocPath == <<"/users/">> \o UserId

Flag(b) == [booleanValue |-> b]

\* a code and expiry left in the record by an earlier send at time 0
EarlierCode == [stringValue |-> generateOtp(0)]

EarlierExpiry == [timestampValue |-> ToISOString(OtpTtlMs)]

Profile(verified, enabled) ==
  [isPhoneVerified |-> Flag(verified), is2FAEnabled |-> Flag(enabled),
   phone |-> [stringValue |-> Phone]]

WithOtp(fields, code, expiry) ==
  [k \in DOMAIN fields \cup OtpFields |->
     IF k = "currentOtpCode" THEN code
     ELSE IF k = "otpExpiresAt" THEN expiry
     ELSE fields[k]]

\* the user documents the store may hold when the worker starts
InitialFields ==
  {<< >>}
    \cup {Profile(TRUE, TRUE), Profile(TRUE, FALSE)}
    \cup {WithOtp(Profile(v, TRUE), EarlierCode, EarlierExpiry) : v \in BOOLEAN}
    \cup {WithOtp(Profile(TRUE, TRUE), EarlierCode, [nullValue |-> Null])}

\* the body of a successful GET: Firestore omits `fields` when none is set
GetDocument(st) ==
  IF st.fields = << >> THEN [name |-> DocPath]
  ELSE [name |-> DocPath, fields |-> st.fields]

\* variant: a PATCH does not replace a value that is already set
ApplyPatch_FirstWins(st, mask, fields) ==
  IF mask = {} THEN [exists |-> TRUE, fields |-> fields]
  ELSE LET keep == DOMAIN st.fields \ mask
           set  == mask \cap DOMAIN fields
           held(k) == /\ k \in DOMAIN st.fields
                      /\ st.fields[k] # [nullValue |-> Null]
                      /\ fields[k] # [nullValue |-> Null]
       IN  [exists |-> TRUE,
            fields |-> [k \in keep \cup set |->
                          IF k \in set /\ ~held(k) THEN fields[k] ELSE st.fields[k]]]

\* the store's masked write: the fields named by the mask are set from the
\* body or deleted when the body lacks them; without a mask the body
\* replaces the whole document
ApplyPatch(st, mask, fields) ==
  IF mask = {} THEN [exists |-> TRUE, fields |-> fields]
  ELSE LET keep == DOMAIN st.fields \ mask
           set  == mask \cap DOMAIN fields
       IN  [exists |-> TRUE,
            fields |-> [k \in keep \cup set |->
                          IF k \in set THEN fields[k] ELSE st.fields[k]]]

(* -------------------------------- state ------------------------------- *)

VARIABLES
  store,    \* the user document held by the document store
  now,      \* Date.now()
  req,      \* per request: position in fetch and its local variables
  calls,    \* per request: the external calls made so far, in order
  ver,      \* number of patches the store has applied
  initial,  \* the user document at start
  pure,     \* one application of a helper function: its input and its result
  iprog     \* one invocation of the iProgSMS worker's fetch

vars == <<store, now, req, calls, ver, initial, pure, iprog>>

\* no helper is being applied on its own
NoPure == [fn |-> "none"]

\* the iProgSMS worker is not invoked
NoIprog == [pc |-> "none"]

IdleReq ==
  [pc |-> "idle", method |-> "", body |-> Obj(<< >>),
   userDoc |-> [name |-> << >>], at |-> 0,
   otpCode |-> Undefined, otpExpiresAt |-> Undefined,
   out |-> NoCall, response |-> NoResponse, readVer |-> 0, patchVer |-> 0]

Init ==
  /\ \E ex \in BOOLEAN : \E f \in InitialFields :
       /\ (~ex => f = << >>)
       /\ store = [exists |-> ex, fields |-> f]
  /\ now = 0
  /\ req = [r \in Reqs |-> IdleReq]
  /\ calls = [r \in Reqs |-> << >>]
  /\ ver = 0
  /\ initial = store
  /\ pure = NoPure
  /\ iprog = NoIprog

Done(q, response) == [q EXCEPT !.pc = "done", !.out = NoCall, !.response = response]

\* response.ok : a status in the range 200-299
IsOk(status) == status >= 200 /\ status <= 299

Logged(r, call, status) ==
  [calls EXCEPT ![r] = Append(@, [call |-> call, status |-> status, ok |-> IsOk(status)])]

\* the outcomes of a store call: the store serves it or answers non-2xx
StoreOutcomes == {"ok", "unavailable"}

(* ------------------------------- actions ------------------------------ *)

\* fetch, up to the first await: method check, body parse, userId check,
\* then the GET of the user document is issued
Receive(r, method, body) ==
  /\ req[r].pc = "idle"
  /\ \A p \in Reqs : p < r => req[p].pc # "idle"
  /\ LET q == [req[r] EXCEPT !.method = method, !.body = body]
     IN  req' = [req EXCEPT ![r] =
           IF method # "POST"
             THEN Done(q, Response(405, [text |-> "Method not allowed"]))
           ELSE IF ~Truthy(Get(body, "userId"))
             THEN Done(q, JsonError(400, "userId required"))
           ELSE [q EXCEPT !.pc = "get", !.out = GetCall]]
  /\ UNCHANGED <<store, now, calls, ver, initial, pure, iprog>>

\* variant: a GET answered non-2xx is issued a second time
StoreGet_Retry(r, outcome) ==
  /\ req[r].pc = "get"
  /\ LET status == IF outcome = "unavailable" THEN 503
                   ELSE IF ~store.exists THEN 404 ELSE 200
         text   == IF status = 404 THEN "NOT_FOUND" ELSE "UNAVAILABLE"
     IN  IF ~IsOk(status)
           THEN /\ req' = [req EXCEPT ![r] =
                            IF calls[r] = << >> THEN @
                            ELSE Done(@, InternalError(<<"Firestore error: ", text>>))]
                /\ calls' = Logged(r, req[r].out, status)
         ELSE /\ req' = [req EXCEPT ![r] =
                          [@ EXCEPT !.pc = "gotDoc", !.out = NoCall,
                                    !.userDoc = GetDocument(store), !.readVer = ver]]
              /\ calls' = Logged(r, req[r].out, status)
  /\ UNCHANGED <<store, now, ver, initial, pure, iprog>>

\* firestoreRequest(env, `/users/${userId}`): the store answers the GET
StoreGet(r, outcome) ==
  /\ req[r].pc = "get"
  /\ LET status == IF outcome = "unavailable" THEN 503
                   ELSE IF ~store.exists THEN 404 ELSE 200
         text   == IF status = 404 THEN "NOT_FOUND" ELSE "UNAVAILABLE"
     IN  IF ~IsOk(status)
           THEN /\ req' = [req EXCEPT ![r] =
                            Done(@, InternalError(<<"Firestore error: ", text>>))]
                /\ calls' = Logged(r, req[r].out, status)
         ELSE /\ req' = [req EXCEPT ![r] =
                          [@ EXCEPT !.pc = "gotDoc", !.out = NoCall,
                                    !.userDoc = GetDocument(store), !.readVer = ver]]
              /\ calls' = Logged(r, req[r].out, status)
  /\ UNCHANGED <<store, now, ver, initial, pure, iprog>>

\* variant: the PATCH is issued without an update mask
SendBranch_Unmasked(q, userData, k, t) ==
  IF ~Truthy(Get(userData, "isPhoneVerified")) \/ ~Truthy(Get(userData, "is2FAEnabled"))
    THEN Done(q, NotEligible)
  ELSE IF ~Truthy(Get(q.body, "phone"))
    THEN Done(q, MissingDestination)
  ELSE LET otpCode      == Str(generateOtp(k))
           otpExpiresAt == DateOf(t + OtpTtlMs)
       IN  [q EXCEPT !.pc = "patch", !.otpCode = otpCode,
                     !.otpExpiresAt = otpExpiresAt,
                     !.out = PatchCall({},
                               objectToFirestore(Obj([currentOtpCode |-> otpCode,
                                                      otpExpiresAt |-> otpExpiresAt])))]

\* variant: the request is rejected only when both flags are off
SendBranch_EitherFlag(q, userData, k, t) ==
  IF ~Truthy(Get(userData, "isPhoneVerified")) /\ ~Truthy(Get(userData, "is2FAEnabled"))
    THEN Done(q, NotEligible)
  ELSE IF ~Truthy(Get(q.body, "phone"))
    THEN Done(q, MissingDestination)
  ELSE LET otpCode      == Str(generateOtp(k))
           otpExpiresAt == DateOf(t + OtpTtlMs)
       IN  [q EXCEPT !.pc = "patch", !.otpCode = otpCode,
                     !.otpExpiresAt = otpExpiresAt,
                     !.out = PatchCall(OtpFields,
                               objectToFirestore(Obj([currentOtpCode |-> otpCode,
                                                      otpExpiresAt |-> otpExpiresAt])))]

\* variant: the PATCH of a send carries the code without its expiry
SendBranch_NoExpiry(q, userData, k, t) ==
  IF ~Truthy(Get(userData, "isPhoneVerified")) \/ ~Truthy(Get(userData, "is2FAEnabled"))
    THEN Done(q, NotEligible)
  ELSE IF ~Truthy(Get(q.body, "phone"))
    THEN Done(q, MissingDestination)
  ELSE LET otpCode      == Str(generateOtp(k))
           otpExpiresAt == DateOf(t + OtpTtlMs)
       IN  [q EXCEPT !.pc = "patch", !.otpCode = otpCode,
                     !.otpExpiresAt = otpExpiresAt,
                     !.out = PatchCall(OtpFields,
                               objectToFirestore(Obj([currentOtpCode |-> otpCode])))]

\* variant: the destination is checked before the flags
SendBranch_PhoneFirst(q, userData, k, t) ==
  IF ~Truthy(Get(q.body, "phone"))
    THEN Done(q, MissingDestination)
  ELSE IF ~Truthy(Get(userData, "isPhoneVerified")) \/ ~Truthy(Get(userData, "is2FAEnabled"))
    THEN Done(q, NotEligible)
  ELSE LET otpCode      == Str(generateOtp(k))
           otpExpiresAt == DateOf(t + OtpTtlMs)
       IN  [q EXCEPT !.pc = "patch", !.otpCode = otpCode,
                     !.otpExpiresAt = otpExpiresAt,
                     !.out = PatchCall(OtpFields,
                               objectToFirestore(Obj([currentOtpCode |-> otpCode,
                                                      otpExpiresAt |-> otpExpiresAt])))]

\* the send branch after the user lookup, up to the PATCH being issued
SendBranch(q, userData, k, t) ==
  IF ~Truthy(Get(userData, "isPhoneVerified")) \/ ~Truthy(Get(userData, "is2FAEnabled"))
    THEN Done(q, NotEligible)
  ELSE IF ~Truthy(Get(q.body, "phone"))
    THEN Done(q, MissingDestination)
  ELSE LET otpCode      == Str(generateOtp(k))
           otpExpiresAt == DateOf(t + OtpTtlMs)
       IN  [q EXCEPT !.pc = "patch", !.otpCode = otpCode,
                     !.otpExpiresAt = otpExpiresAt,
                     !.out = PatchCall(OtpFields,
                               objectToFirestore(Obj([currentOtpCode |-> otpCode,
                                                      otpExpiresAt |-> otpExpiresAt])))]

\* variant: an expiry equal to the current time still counts as valid
OtpMatches_Inclusive(userData, otp, t) ==
  /\ StrictEq(Get(userData, "currentOtpCode"), otp)
  /\ Truthy(Get(userData, "otpExpiresAt"))
  /\ \/ GreaterThan(Get(userData, "otpExpiresAt"), DateOf(t))
     \/ Get(userData, "otpExpiresAt") = DateOf(t)

\* the comparison that decides a verify
OtpMatches(userData, otp, t) ==
  /\ StrictEq(Get(userData, "currentOtpCode"), otp)
  /\ Truthy(Get(userData, "otpExpiresAt"))
  /\ GreaterThan(Get(userData, "otpExpiresAt"), DateOf(t))

\* variant: success is reported without clearing the stored code
VerifyBranch_NoClear(q, userData, t) ==
  IF ~Truthy(Get(q.body, "otp"))
    THEN Done(q, MissingCode)
  ELSE IF OtpMatches(userData, Get(q.body, "otp"), t)
    THEN Done(q, VerifySuccess)
  ELSE Done(q, InvalidOrExpired)

\* variant: a failed comparison also clears the stored code
VerifyBranch_ClearOnFailure(q, userData, t) ==
  IF ~Truthy(Get(q.body, "otp"))
    THEN Done(q, MissingCode)
  ELSE [q EXCEPT !.pc = "patch",
                 !.out = PatchCall(OtpFields,
                           objectToFirestore(Obj([currentOtpCode |-> Null,
                                                  otpExpiresAt |-> Null])))]

\* variant: the clearing PATCH names only currentOtpCode in its mask
VerifyBranch_ClearCodeOnly(q, userData, t) ==
  IF ~Truthy(Get(q.body, "otp"))
    THEN Done(q, MissingCode)
  ELSE IF OtpMatches(userData, Get(q.body, "otp"), t)
    THEN [q EXCEPT !.pc = "patch",
                   !.out = PatchCall({"currentOtpCode"},
                             objectToFirestore(Obj([currentOtpCode |-> Null,
                                                    otpExpiresAt |-> Null])))]
  ELSE Done(q, InvalidOrExpired)

\* the verify branch after the user lookup, up to the PATCH being issued
VerifyBranch(q, userData, t) ==
  IF ~Truthy(Get(q.body, "otp"))
    THEN Done(q, MissingCode)
  ELSE IF OtpMatches(userData, Get(q.body, "otp"), t)
    THEN [q EXCEPT !.pc = "patch",
                   !.out = PatchCall(OtpFields,
                             objectToFirestore(Obj([currentOtpCode |-> Null,
                                                    otpExpiresAt |-> Null])))]
  ELSE Done(q, InvalidOrExpired)

\* fetch, from the decoded user document to the next await or response
Handle(r, k) ==
  /\ req[r].pc = "gotDoc"
  /\ LET q        == [req[r] EXCEPT !.at = now]
         userData == firestoreToObject(q.userDoc)
         action   == Get(q.body, "action")
     IN  req' = [req EXCEPT ![r] =
           IF ~Truthy(userData)
             THEN Done(q, IdentityNotFound)
           ELSE IF StrictEq(action, Str(SendAction))
             THEN SendBranch(q, userData, k, now)
           ELSE IF StrictEq(action, Str(VerifyAction))
             THEN VerifyBranch(q, userData, now)
           ELSE Done(q, JsonError(400, "Action must be send or verify"))]
  /\ UNCHANGED <<store, now, calls, ver, initial, pure, iprog>>

\* what fetch does once its PATCH has returned
AfterPatch(q) ==
  IF StrictEq(Get(q.body, "action"), Str(SendAction))
    THEN [q EXCEPT !.pc = "sms",
                   !.out = SmsCall(Get(q.body, "phone").v, SmsMessage(q.otpCode.v))]
  ELSE Done(q, VerifySuccess)

\* variant: a PATCH that is answered non-2xx has been applied all the same
StorePatch_WriteThenFail(r, outcome) ==
  /\ req[r].pc = "patch"
  /\ store' = ApplyPatch(store, req[r].out.mask, req[r].out.body.fields)
  /\ ver' = ver + 1
  /\ IF outcome = "unavailable"
       THEN /\ req' = [req EXCEPT ![r] =
                        Done(@, InternalError(<<"Firestore error: ", "UNAVAILABLE">>))]
            /\ calls' = Logged(r, req[r].out, 503)
     ELSE /\ req' = [req EXCEPT ![r] = AfterPatch([@ EXCEPT !.patchVer = ver + 1])]
          /\ calls' = Logged(r, req[r].out, 200)
  /\ UNCHANGED <<now, initial, pure, iprog>>

\* firestoreRequest(env, path, "PATCH", body): the store answers the PATCH
StorePatch(r, outcome) ==
  /\ req[r].pc = "patch"
  /\ IF outcome = "unavailable"
       THEN /\ req' = [req EXCEPT ![r] =
                        Done(@, InternalError(<<"Firestore error: ", "UNAVAILABLE">>))]
            /\ calls' = Logged(r, req[r].out, 503)
            /\ UNCHANGED <<store, ver>>
     ELSE /\ store' = ApplyPatch(store, req[r].out.mask, req[r].out.body.fields)
          /\ ver' = ver + 1
          /\ req' = [req EXCEPT ![r] = AfterPatch([@ EXCEPT !.patchVer = ver + 1])]
          /\ calls' = Logged(r, req[r].out, 200)
  /\ UNCHANGED <<now, initial, pure, iprog>>

\* variant: the transport's status is not looked at
Deliver_IgnoreStatus(r, ok) ==
  /\ req[r].pc = "sms"
  /\ req' = [req EXCEPT ![r] = Done(@, SendSuccess)]
  /\ calls' = Logged(r, req[r].out, IF ok THEN 201 ELSE 503)
  /\ UNCHANGED <<store, now, ver, initial, pure, iprog>>

\* variant: a failed delivery removes the code it could not deliver
Deliver_Rollback(r, ok) ==
  /\ req[r].pc = "sms"
  /\ req' = [req EXCEPT ![r] =
       IF ok THEN Done(@, SendSuccess)
       ELSE Done(@, InternalError(<<"Twilio SMS error: ", "UNAVAILABLE">>))]
  /\ calls' = Logged(r, req[r].out, IF ok THEN 201 ELSE 503)
  /\ store' = IF ok THEN store
              ELSE ApplyPatch(store, OtpFields,
                              objectToFirestore(Obj([currentOtpCode |-> Null,
                                                     otpExpiresAt |-> Null])).fields)
  /\ UNCHANGED <<now, ver, initial, pure, iprog>>

\* sendTwilioSms(phone, message, env): the transport answers, fetch returns
Deliver(r, ok) ==
  /\ req[r].pc = "sms"
  /\ req' = [req EXCEPT ![r] =
       IF ok THEN Done(@, SendSuccess)
       ELSE Done(@, InternalError(<<"Twilio SMS error: ", "UNAVAILABLE">>))]
  /\ calls' = Logged(r, req[r].out, IF ok THEN 201 ELSE 503)
  /\ UNCHANGED <<store, now, ver, initial, pure, iprog>>

\* time passes
Tick ==
  /\ now + TickMs <= MaxTicks * TickMs
  /\ now' = now + TickMs
  /\ UNCHANGED <<store, req, calls, ver, initial, pure, iprog>>

Next ==
  \/ \E r \in Reqs, request \in Requests : Receive(r, request.method, request.body)
  \/ \E r \in Reqs, outcome \in StoreOutcomes : StoreGet(r, outcome)
  \/ \E r \in Reqs, k \in RandSamples : Handle(r, k)
  \/ \E r \in Reqs, outcome \in StoreOutcomes : StorePatch(r, outcome)
  \/ \E r \in Reqs, ok \in BOOLEAN : Deliver(r, ok)
  \/ Tick

Spec == Init /\ [][Next]_vars

(* --------------------- the codec applied on its own -------------------- *)

\* the variables of the fetch handler and of the store
service == <<store, now, req, calls, ver, initial>>

\* no request is ever received
Parked ==
  /\ store = [exists |-> FALSE, fields |-> << >>]
  /\ now = 0
  /\ req = [r \in Reqs |-> IdleReq]
  /\ calls = [r \in Reqs |-> << >>]
  /\ ver = 0
  /\ initial = store

\* string payloads: empty, plain, and strings that read as numbers
CodecStrings == {<< >>, <<"a">>, <<"4", "2">>, <<"-", "1">>}

CodecNumbers == {0, 7, -1, -120, 100000}

CodecInstants == {0, 1, OtpTtlMs, MsPerDay - 1}

\* the native values of the five kinds objectToFirestore encodes
CodecValues ==
  {Str(s) : s \in CodecStrings} \cup {Num(n) : n \in CodecNumbers}
    \cup {Bool(b) : b \in BOOLEAN} \cup {DateOf(ms) : ms \in CodecInstants}
    \cup {Null}

CodecKeys == {"a", "b"}

\* the mappings handed to objectToFirestore, the empty one included
CodecInputs == {Obj(f) : f \in UNION {[ks -> CodecValues] : ks \in SUBSET CodecKeys}}

InitCodec ==
  /\ Parked
  /\ iprog = NoIprog
  /\ \E obj \in CodecInputs :
       pure = [fn |-> "codec", pc |-> "input", obj |-> obj,
               doc |-> [name |-> << >>], back |-> Undefined]

\* doc = objectToFirestore(obj)
Encode ==
  /\ pure.pc = "input"
  /\ pure' = [pure EXCEPT !.pc = "encoded", !.doc = objectToFirestore(pure.obj)]
  /\ UNCHANGED <<service, iprog>>

\* back = firestoreToObject(doc)
Decode ==
  /\ pure.pc = "encoded"
  /\ pure' = [pure EXCEPT !.pc = "decoded", !.back = firestoreToObject(pure.doc)]
  /\ UNCHANGED <<service, iprog>>

NextCodec == Encode \/ Decode

SpecCodec == InitCodec /\ [][NextCodec]_vars

(* --------------------- the signer applied on its own ------------------- *)

\* now + 3600 : the lifetime of a token, in seconds
TokenLifetimeS == 3600

FirestoreAudience == "https://firestore.googleapis.com/"

\* the service accounts the worker is deployed with
Envs ==
  {[FIREBASE_CLIENT_EMAIL |-> e, FIREBASE_PRIVATE_KEY |-> k] :
     e \in {"worker@project-a.iam", "otp@project-b.iam"}, k \in {"key-1"}}

\* Date.now() at the moments a token is issued: around each second boundary
\* of the first seconds, and late in the range of the clock
IssueTimes ==
  {sec * MsPerSecond + d : sec \in (0..MaxIssueSec) \cup {2000000}, d \in {0, 1, MsPerSecond - 1}}

\* variant: iat and exp are taken in milliseconds
getFirebaseToken_Millis(env, nowMs) ==
  LET header  == [alg |-> "RS256", typ |-> "JWT"]
      payload == [iss |-> env.FIREBASE_CLIENT_EMAIL,
                  sub |-> env.FIREBASE_CLIENT_EMAIL,
                  aud |-> FirestoreAudience,
                  iat |-> nowMs,
                  exp |-> nowMs + TokenLifetimeS]
  IN  [header |-> header, payload |-> payload,
       signature |-> [alg |-> "RSASSA-PKCS1-v1_5", hash |-> "SHA-256",
                      key |-> env.FIREBASE_PRIVATE_KEY,
                      input |-> <<header, payload>>]]

\* the token: header, claim set, and the signature over both by the private key
getFirebaseToken(env, nowMs) ==
  LET now_    == nowMs \div MsPerSecond
      expiry  == now_ + TokenLifetimeS
      header  == [alg |-> "RS256", typ |-> "JWT"]
      payload == [iss |-> env.FIREBASE_CLIENT_EMAIL,
                  sub |-> env.FIREBASE_CLIENT_EMAIL,
                  aud |-> FirestoreAudience,
                  iat |-> now_,
                  exp |-> expiry]
  IN  [header |-> header, payload |-> payload,
       signature |-> [alg |-> "RSASSA-PKCS1-v1_5", hash |-> "SHA-256",
                      key |-> env.FIREBASE_PRIVATE_KEY,
                      input |-> <<header, payload>>]]

NoToken == [header |-> << >>, payload |-> << >>, signature |-> << >>]

InitSigner ==
  /\ Parked
  /\ iprog = NoIprog
  /\ \E env \in Envs, nowMs \in IssueTimes :
       pure = [fn |-> "signer", pc |-> "input", env |-> env, nowMs |-> nowMs,
               token |-> NoToken]

\* token = await getFirebaseToken(env)
Issue ==
  /\ pure.pc = "input"
  /\ pure' = [pure EXCEPT !.pc = "issued",
                          !.token = getFirebaseToken(pure.env, pure.nowMs)]
  /\ UNCHANGED <<service, iprog>>

NextSigner == Issue

SpecSigner == InitSigner /\ [][NextSigner]_vars

(* ------------------- the generator applied on its own ------------------ *)

\* the numerators k of the values k / RandDen that Math.random() returns
RandNumerators ==
  (0..RandEdge) \cup {j * RandStride : j \in 0..((RandDen - 1) \div RandStride)}
    \cup ((RandDen - 1 - RandEdge)..(RandDen - 1))

InitOtp ==
  /\ Parked
  /\ iprog = NoIprog
  /\ \E k \in RandNumerators :
       pure = [fn |-> "otp", pc |-> "input", k |-> k, otpCode |-> << >>]

\* otpCode = generateOtp()
Generate ==
  /\ pure.pc = "input"
  /\ pure' = [pure EXCEPT !.pc = "generated", !.otpCode = generateOtp(pure.k)]
  /\ UNCHANGED <<service, iprog>>

NextOtp == Generate

SpecOtp == InitOtp /\ [][NextOtp]_vars

(* -------------------------- the iProgSMS worker ------------------------ *)

\* x ?? d
Coalesce(x, d) == IF x.t \in {"undefined", "null"} THEN d ELSE x

RECURSIVE TrimStart(_)
TrimStart(s) == IF s # << >> /\ Head(s) = " " THEN TrimStart(Tail(s)) ELSE s

RECURSIVE TrimEnd(_)
TrimEnd(s) == IF s # << >> /\ s[Len(s)] = " " THEN TrimEnd(SubSeq(s, 1, Len(s) - 1)) ELSE s

\* String.prototype.trim()
Trim(s) == TrimEnd(TrimStart(s))

\* the properties that JSON.stringify keeps: those that are not undefined
Defined(f) == [k \in {j \in DOMAIN f : f[j] # Undefined} |-> f[k]]

\* new Response(text, {status})
TextResponse(status, text) == [status |-> status, json |-> FALSE, body |-> Str(<<text>>)]

\* Response.json(data)
JsonResponse(data) == [status |-> 200, json |-> TRUE, body |-> data]

IprogPhone == <<"6", "3", "9">>

IprogOtp == <<"1", "2", "3", "4", "5", "6">>

ApiToken == <<"t", "o", "k">>

\* the parsed request bodies: objects, and the JSON text null
IprogBodies ==
  {Null} \cup
  {Obj(Defined(f)) :
     f \in [action       : {Undefined, Str(SendAction), Str(VerifyAction), Str(OtherAction)},
            phone_number : {Undefined, Str(IprogPhone)},
            message      : {Undefined, Str(<< >>), Str(<<" ">>), Str(<<"h", "i">>)},
            otp          : {Undefined, Str(IprogOtp)}]}

\* request.text(): unparsable, or the text of one of the bodies
IprogRequests ==
  {[method |-> m, parsable |-> FALSE, body |-> Undefined] : m \in {"POST", "GET"}}
    \cup {[method |-> "POST", parsable |-> TRUE, body |-> b] : b \in IprogBodies}
    \cup {[method |-> "GET", parsable |-> TRUE, body |-> Obj([action |-> Str(SendAction)])]}

\* the parsed answers of iprog: objects, and the JSON text null
IprogAnswers ==
  {Null} \cup
  {Obj(Defined(f)) :
     f \in [status     : {Undefined, Str(<<"success">>), Str(<<"error">>)},
            message    : {Undefined, Str(<<"Invalid OTP">>)},
            otp_code   : {Undefined, Null, Str(IprogOtp)},
            data       : {Undefined, Obj([verified |-> Bool(TRUE)])},
            expired_at : {Undefined, Null}]}

\* what the fetch of the iprog endpoint comes back with: no response at all,
\* a non-2xx status, a 2xx status with a text that is not JSON, or a 2xx
\* status with a JSON text
IprogOutcomes ==
  {[arrived |-> FALSE, status |-> 0, parsable |-> FALSE, json |-> Undefined]}
    \cup {[arrived |-> TRUE, status |-> st, parsable |-> FALSE, json |-> Undefined]
            : st \in {200, 401, 500}}
    \cup {[arrived |-> TRUE, status |-> 200, parsable |-> TRUE, json |-> j] : j \in IprogAnswers}

NoOutcome == [arrived |-> FALSE, status |-> -1, parsable |-> FALSE, json |-> Undefined]

NoIprogCall == [url |-> "", body |-> << >>]

\* sendOtp: the request to the send_otp endpoint
SendOtpCall(phone_number, message) ==
  [url  |-> "https://www.iprogsms.com/api/v1/otp/send_otp",
   body |-> Defined([api_token    |-> Str(ApiToken),
                     phone_number |-> phone_number,
                     message      |-> IF message.t = "string" /\ Trim(message.v) # << >>
                                        THEN message ELSE Undefined])]

\* verifyOtp: the request to the verify_otp endpoint
VerifyOtpCall(phone_number, otp) ==
  [url  |-> "https://www.iprogsms.com/api/v1/otp/verify_otp",
   body |-> Defined([api_token |-> Str(ApiToken), phone_number |-> phone_number, otp |-> otp])]

IdleIprog ==
  [pc |-> "idle", method |-> "", parsable |-> FALSE, body |-> Undefined,
   out |-> NoIprogCall, outcome |-> NoOutcome,
   response |-> [status |-> 0, json |-> FALSE, body |-> Undefined]]

IprogDone(q, response) == [q EXCEPT !.pc = "done", !.out = NoIprogCall, !.response = response]

InitIprog ==
  /\ Parked
  /\ pure = NoPure
  /\ iprog = IdleIprog

\* fetch, up to its first await of the iprog endpoint
IprogReceive(request) ==
  /\ iprog.pc = "idle"
  /\ LET q == [iprog EXCEPT !.method = request.method, !.parsable = request.parsable,
                            !.body = request.body]
         body == request.body
     IN  iprog' =
           IF request.method # "POST"
             THEN IprogDone(q, TextResponse(405, "Method Not Allowed"))
           ELSE IF ~request.parsable
             THEN IprogDone(q, TextResponse(400, "Invalid JSON body"))
           ELSE IF body.t # "object"
             THEN IprogDone(q, TextResponse(500, "Internal Server Error"))
           ELSE IF StrictEq(Get(body, "action"), Str(SendAction))
             THEN [q EXCEPT !.pc = "upstream",
                            !.out = SendOtpCall(Get(body, "phone_number"), Get(body, "message"))]
           ELSE IF StrictEq(Get(body, "action"), Str(VerifyAction))
             THEN [q EXCEPT !.pc = "upstream",
                            !.out = VerifyOtpCall(Get(body, "phone_number"), Get(body, "otp"))]
           ELSE IprogDone(q, TextResponse(400, "Invalid action"))
  /\ UNCHANGED <<service, pure>>

\* the normalized response of a send
SendNormalized(iprogRes) ==
  Obj([status              |-> Coalesce(Get(iprogRes, "status"), Str(<<"success">>)),
       message             |-> Coalesce(Get(iprogRes, "message"), Str(<<"OTP sent successfully">>)),
       otp_code            |-> Coalesce(Get(iprogRes, "otp_code"), Null),
       otp_code_expires_at |-> Coalesce(Get(iprogRes, "otp_code_expires_at"), Null)])

\* the normalized response of a verify
VerifyNormalized(body, iprogRes) ==
  Obj(Defined(
      [status  |-> Coalesce(Get(iprogRes, "status"), Str(<<"success">>)),
       message |-> Coalesce(Get(iprogRes, "message"), Str(<<"OTP verified successfully">>)),
       data    |-> Coalesce(Get(iprogRes, "data"),
                     Obj(Defined([phone_number |-> Get(body, "phone_number"),
                                  otp_code     |-> Get(body, "otp"),
                                  expired_at   |-> Coalesce(Get(iprogRes, "expired_at"), Null)])))]))

\* the iprog endpoint answers (or the fetch of it fails); sendOtp or
\* verifyOtp returns or throws, and fetch returns its response
IprogAnswer(outcome) ==
  /\ iprog.pc = "upstream"
  /\ LET q == [iprog EXCEPT !.outcome = outcome]
     IN  iprog' =
           IF ~outcome.arrived \/ ~IsOk(outcome.status) \/ ~outcome.parsable
             THEN IprogDone(q, TextResponse(500, "Internal Server Error"))
           ELSE IF outcome.json.t # "object"
             THEN IprogDone(q, TextResponse(500, "Internal Server Error"))
           ELSE IF StrictEq(Get(q.body, "action"), Str(SendAction))
             THEN IprogDone(q, JsonResponse(SendNormalized(outcome.json)))
           ELSE IprogDone(q, JsonResponse(VerifyNormalized(q.body, outcome.json)))
  /\ UNCHANGED <<service, pure>>

NextIprog ==
  \/ \E request \in IprogRequests : IprogReceive(request)
  \/ \E outcome \in IprogOutcomes : IprogAnswer(outcome)

SpecIprog == InitIprog /\ [][NextIprog]_vars

(* ------------------- requests arriving one after another --------------- *)

\* the invocations of fetch, each arriving after the previous one returned
SeqReqs == {1, 2, 3}

InitSeq ==
  /\ \E ex \in BOOLEAN : \E f \in InitialFields :
       /\ (~ex => f = << >>)
       /\ store = [exists |-> ex, fields |-> f]
  /\ now = 0
  /\ req = [r \in SeqReqs |-> IdleReq]
  /\ calls = [r \in SeqReqs |-> << >>]
  /\ ver = 0
  /\ initial = store
  /\ pure = NoPure
  /\ iprog = NoIprog

\* the requests that can get as far as a PATCH: sends with a destination
\* and verifies with a candidate code
SeqRequests ==
  {request \in Requests :
     /\ request.method = "POST"
     /\ Truthy(Get(request.body, "userId"))
     /\ \/ StrictEq(Get(request.body, "action"), Str(SendAction))
             /\ Truthy(Get(request.body, "phone"))
        \/ StrictEq(Get(request.body, "action"), Str(VerifyAction))
             /\ Truthy(Get(request.body, "otp"))}

\* fetch is invoked while no other invocation is under way
SeqReceive(r, method, body) ==
  /\ \A p \in SeqReqs : req[p].pc \in {"idle", "done"}
  /\ Receive(r, method, body)

NextSeq ==
  \/ \E r \in SeqReqs, request \in SeqRequests : SeqReceive(r, request.method, request.body)
  \/ \E r \in SeqReqs, outcome \in StoreOutcomes : StoreGet(r, outcome)
  \/ \E r \in SeqReqs, k \in RandSamples : Handle(r, k)
  \/ \E r \in SeqReqs, outcome \in StoreOutcomes : StorePatch(r, outcome)
  \/ \E r \in SeqReqs, ok \in BOOLEAN : Deliver(r, ok)
  \/ Tick

SpecSeq == InitSeq /\ [][NextSeq]_vars

(* ------------------------ vocabulary of the claims -------------------- *)

IsSend(q) == q.method = "POST" /\ Get(q.body, "action") = Str(SendAction)

IsVerify(q) == q.method = "POST" /\ Get(q.body, "action") = Str(VerifyAction)

\* the request has read the user document and the document has fields
Found(q) == q.pc \in {"gotDoc", "patch", "sms", "done"} /\ "fields" \in DOMAIN q.userDoc

\* the request carries a candidate code
HasCandidate(q) == "otp" \in DOMAIN q.body.v /\ q.body.v["otp"].v # << >>

HasPhone(q) == "phone" \in DOMAIN q.body.v /\ q.body.v["phone"].v # << >>

\* the instants the clock and the stored expiries range over
Instants ==
  {i * TickMs : i \in 0..MaxTicks} \cup {i * TickMs + OtpTtlMs : i \in 0..MaxTicks}

StoredCodeIs(fields, code) ==
  /\ "currentOtpCode" \in DOMAIN fields
  /\ fields["currentOtpCode"] = [stringValue |-> code]

StoredExpiryIs(fields, ms) ==
  /\ "otpExpiresAt" \in DOMAIN fields
  /\ fields["otpExpiresAt"] = [timestampValue |-> ToISOString(ms)]

\* the record holds this code with an expiry strictly after t
ValidFor(fields, code, t) ==
  /\ StoredCodeIs(fields, code)
  /\ \E ms \in Instants : ms > t /\ StoredExpiryIs(fields, ms)

\* the field is null or missing
Cleared(fields, k) == k \notin DOMAIN fields \/ fields[k] = [nullValue |-> Null]

OtherFields(fields) == [k \in DOMAIN fields \ OtpFields |-> fields[k]]

Svcs(r) == [i \in DOMAIN calls[r] |-> calls[r][i].call.svc]

\* the request's PATCH was applied by the store
PatchServed(r) ==
  \E i \in DOMAIN calls[r] : calls[r][i].call.svc = "PATCH" /\ calls[r][i].ok

NoWriteOrDelivery(r) ==
  \A i \in DOMAIN calls[r] : calls[r][i].call.svc = "GET"

\* a send's PATCH landed after version lo, up to version hi
SendPatchedBetween(lo, hi) ==
  \E s \in Reqs : IsSend(req[s]) /\ req[s].patchVer > lo /\ req[s].patchVer <= hi

\* a verify that found the identity, carried a candidate code and returned
VerifyDecided(q) == IsVerify(q) /\ Found(q) /\ HasCandidate(q) /\ q.pc = "done"

Candidate(q) == q.body.v["otp"].v

(* -------------------------------- C1 ---------------------------------- *)

\* C1 (as stated): a verify that found the identity and carries a candidate
\* code reports success if and only if the stored code equals the candidate,
\* the stored expiry is present and the expiry is strictly later than the
\* current time.
C1_AsStated ==
  \A r \in Reqs :
    VerifyDecided(req[r]) =>
      (req[r].response = VerifySuccess
         <=> ValidFor(req[r].userDoc.fields, Candidate(req[r]), req[r].at))

\* C1 (amended): such a verify reports success if and only if the three
\* conditions hold and its clearing patch is served; it reports
\* InvalidOrExpired if and only if the conditions fail (a matching code whose
\* expiry is equal to or before now included); when they hold and the patch
\* fails it ends in the internal-failure outcome.
C1_VerifyDecision ==
  \A r \in Reqs :
    LET q     == req[r]
        valid == ValidFor(q.userDoc.fields, Candidate(q), q.at)
    IN  /\ (IsVerify(q) /\ q.pc = "patch") => valid
        /\ VerifyDecided(q) =>
             /\ q.response = VerifySuccess <=> (valid /\ PatchServed(r))
             /\ q.response = InvalidOrExpired <=> ~valid
             /\ (valid /\ ~PatchServed(r)) => q.response.status = 500

\* one verify has succeeded, and another presenting the stored code at the
\* very instant of its expiry was answered InvalidOrExpired
C1_Witness ==
  \E r1, r2 \in Reqs :
    /\ VerifyDecided(req[r1]) /\ req[r1].response = VerifySuccess
    /\ VerifyDecided(req[r2]) /\ req[r2].response = InvalidOrExpired
    /\ StoredCodeIs(req[r2].userDoc.fields, Candidate(req[r2]))
    /\ StoredExpiryIs(req[r2].userDoc.fields, req[r2].at)

(* -------------------------------- C2 ---------------------------------- *)

\* C2: a verify that succeeds has cleared currentOtpCode and otpExpiresAt
\* (they stay cleared until a send stores a new code), and a later verify
\* presenting the same code, reading the record after that clearing with no
\* send in between, is answered InvalidOrExpired.
C2_OneTimeUse ==
  \A r1 \in Reqs :
    (IsVerify(req[r1]) /\ req[r1].response = VerifySuccess) =>
      /\ PatchServed(r1) /\ req[r1].patchVer > 0
      /\ ~SendPatchedBetween(req[r1].patchVer, ver) =>
           (Cleared(store.fields, "currentOtpCode") /\ Cleared(store.fields, "otpExpiresAt"))
      /\ \A r2 \in Reqs \ {r1} :
           ( /\ IsVerify(req[r2]) /\ Found(req[r2])
             /\ Get(req[r2].body, "otp") = Get(req[r1].body, "otp")
             /\ req[r2].readVer >= req[r1].patchVer
             /\ ~SendPatchedBetween(req[r1].patchVer, req[r2].readVer) )
           => /\ req[r2].pc \in {"gotDoc", "done"}
              /\ req[r2].pc = "done" => req[r2].response = InvalidOrExpired

\* a second verify of the same code was refused although the expiry the
\* first verify saw had not passed yet
C2_Witness ==
  \E r1, r2 \in Reqs :
    /\ r1 # r2
    /\ IsVerify(req[r1]) /\ req[r1].response = VerifySuccess
    /\ IsVerify(req[r2]) /\ req[r2].response = InvalidOrExpired
    /\ Get(req[r2].body, "otp") = Get(req[r1].body, "otp")
    /\ req[r2].readVer >= req[r1].patchVer
    /\ ValidFor(req[r1].userDoc.fields, Candidate(req[r1]), req[r2].at)

(* -------------------------------- C3 ---------------------------------- *)

\* the step in which request r looks at the user document it has read
Decides(r) == req[r].pc = "gotDoc" /\ req'[r].pc # "gotDoc"

\* C3: a verify whose comparison fails (mismatch, expiry elapsed, or no
\* stored code or expiry) is answered InvalidOrExpired in that very step,
\* with no patch issued and the record left exactly as it was.
C3_FailedVerifyNoWrite ==
  [][\A r \in Reqs :
       ( /\ Decides(r)
         /\ IsVerify(req[r]) /\ Found(req[r]) /\ HasCandidate(req[r])
         /\ ~ValidFor(req[r].userDoc.fields, Candidate(req[r]), now) )
       => /\ req'[r].pc = "done"
          /\ req'[r].response = InvalidOrExpired
          /\ req'[r].out = NoCall
          /\ NoWriteOrDelivery(r)
          /\ calls' = calls
          /\ store' = store /\ ver' = ver]_vars

\* a wrong guess was refused and the stored code is still valid
C3_Witness ==
  \E r \in Reqs :
    /\ VerifyDecided(req[r]) /\ req[r].response = InvalidOrExpired
    /\ NoWriteOrDelivery(r)
    /\ \E k \in RandSamples :
         /\ generateOtp(k) # Candidate(req[r])
         /\ ValidFor(store.fields, generateOtp(k), now)
    /\ store = initial

(* -------------------------------- C4 ---------------------------------- *)

TwoFieldPatch(call) ==
  call.svc = "PATCH" =>
    (call.mask = OtpFields /\ DOMAIN call.body.fields = OtpFields)

\* C4: every patch issued names exactly currentOtpCode and otpExpiresAt in
\* its mask and carries exactly those two fields, and every other attribute
\* of the record is as it was at the start.
C4_MaskedPatch ==
  /\ \A r \in Reqs :
       /\ TwoFieldPatch(req[r].out)
       /\ \A i \in DOMAIN calls[r] : TwoFieldPatch(calls[r][i].call)
  /\ OtherFields(store.fields) = OtherFields(initial.fields)

\* a send and a verify have both patched a record that has other attributes
C4_Witness ==
  /\ \E r1, r2 \in Reqs :
       IsSend(req[r1]) /\ PatchServed(r1) /\ IsVerify(req[r2]) /\ PatchServed(r2)
  /\ DOMAIN OtherFields(store.fields) # {}

(* -------------------------------- C5 ---------------------------------- *)

\* both flags of the record are on
Eligible(fields) ==
  /\ "isPhoneVerified" \in DOMAIN fields /\ fields["isPhoneVerified"] = [booleanValue |-> TRUE]
  /\ "is2FAEnabled" \in DOMAIN fields /\ fields["is2FAEnabled"] = [booleanValue |-> TRUE]

\* C5: a send that reads a record whose isPhoneVerified or is2FAEnabled is
\* off is answered NotEligible, issues no patch and no delivery, and so
\* leaves the stored code and expiry as they were.
C5_NotEligible ==
  \A r \in Reqs :
    (IsSend(req[r]) /\ Found(req[r]) /\ ~Eligible(req[r].userDoc.fields)) =>
      /\ req[r].pc \in {"gotDoc", "done"}
      /\ req[r].pc = "done" =>
           /\ req[r].response = NotEligible
           /\ NoWriteOrDelivery(r)
           /\ req[r].patchVer = 0
      /\ ver = 0 => store = initial

\* a send was refused for a record that holds a code, and the code is intact
C5_Witness ==
  \E r \in Reqs :
    /\ IsSend(req[r]) /\ HasPhone(req[r]) /\ req[r].response = NotEligible
    /\ StoredCodeIs(store.fields, generateOtp(0))
    /\ store = initial

(* -------------------------------- C6 ---------------------------------- *)

CallFailed(r, svc) ==
  \E i \in DOMAIN calls[r] : calls[r][i].call.svc = svc /\ ~calls[r][i].ok

\* C6: a send reports success only after its patch and then its delivery
\* have succeeded; a delivery is attempted only after the patch succeeded;
\* and a send whose patch or delivery failed ends in a failure outcome.
C6_PatchThenDeliver ==
  \A r \in Reqs :
    IsSend(req[r]) =>
      /\ req[r].response = SendSuccess =>
           /\ Svcs(r) = <<"GET", "PATCH", "SMS">>
           /\ \A i \in DOMAIN calls[r] : calls[r][i].ok
      /\ \A i \in DOMAIN calls[r] :
           calls[r][i].call.svc = "SMS" =>
             \E j \in 1..(i - 1) : calls[r][j].call.svc = "PATCH" /\ calls[r][j].ok
      /\ req[r].out.svc = "SMS" => (PatchServed(r) /\ ~CallFailed(r, "PATCH"))
      /\ (CallFailed(r, "PATCH") \/ CallFailed(r, "SMS")) =>
           /\ req[r].pc = "done"
           /\ req[r].response.status = 500
           /\ req[r].response # SendSuccess
      /\ CallFailed(r, "PATCH") => Svcs(r) = <<"GET", "PATCH">>

\* one send has succeeded, another has failed at its patch and delivered nothing
C6_Witness ==
  \E r1, r2 \in Reqs :
    /\ IsSend(req[r1]) /\ req[r1].response = SendSuccess
    /\ IsSend(req[r2]) /\ CallFailed(r2, "PATCH") /\ req[r2].pc = "done"

(* -------------------------------- C7 ---------------------------------- *)

\* a send whose patch was served and whose delivery then failed
PartialFailure(r) ==
  IsSend(req[r]) /\ req[r].pc = "done" /\ PatchServed(r) /\ CallFailed(r, "SMS")

\* a verify that read the record as send r1 left it, presents r1's code
\* and looks at the record before that code's expiry
VerifiesCodeOf(r2, r1) ==
  /\ IsVerify(req[r2]) /\ Found(req[r2])
  /\ Get(req[r2].body, "otp") = req[r1].otpCode
  /\ req[r2].readVer = req[r1].patchVer
  /\ req[r2].pc \in {"patch", "done"}
  /\ req[r2].at < req[r1].otpExpiresAt.v

KeepsCodeOf(r1) ==
  ver = req[r1].patchVer =>
    /\ StoredCodeIs(store.fields, req[r1].otpCode.v)
    /\ StoredExpiryIs(store.fields, req[r1].at + 5 * 60 * 1000)

\* C7 (as stated): after a send whose patch succeeded and whose delivery
\* failed, the request has reported failure, the record keeps the new code
\* and expiry, and a verify presenting that code before the expiry, with no
\* other send or verify in between, succeeds.
C7_AsStated ==
  \A r1 \in Reqs :
    PartialFailure(r1) =>
      /\ req[r1].response.status = 500
      /\ KeepsCodeOf(r1)
      /\ \A r2 \in Reqs :
           (VerifiesCodeOf(r2, r1) /\ req[r2].pc = "done") =>
             req[r2].response = VerifySuccess

\* C7 (amended): ... and such a verify passes the code and expiry check: it
\* issues the clearing patch and reports success when that patch is served,
\* and ends in the internal-failure outcome, the code still stored, when
\* that patch fails.
C7_NoRollback ==
  \A r1 \in Reqs :
    PartialFailure(r1) =>
      /\ req[r1].response.status = 500
      /\ KeepsCodeOf(r1)
      /\ \A r2 \in Reqs :
           (VerifiesCodeOf(r2, r1) /\ req[r2].pc = "done") =>
             /\ PatchServed(r2) => req[r2].response = VerifySuccess
             /\ ~PatchServed(r2) =>
                  /\ CallFailed(r2, "PATCH")
                  /\ req[r2].response.status = 500

\* the code of a send whose delivery failed has been verified successfully
C7_Witness ==
  \E r1, r2 \in Reqs :
    /\ PartialFailure(r1)
    /\ VerifiesCodeOf(r2, r1)
    /\ req[r2].pc = "done" /\ req[r2].response = VerifySuccess

(* -------------------------------- C8 ---------------------------------- *)

\* the store has no record of the identity: the GET was answered 404, or
\* with a document that has no field set
RecordAbsent(r) ==
  /\ Len(calls[r]) >= 1
  /\ calls[r][1].call.svc = "GET"
  /\ \/ calls[r][1].status = 404
     \/ calls[r][1].ok /\ "fields" \notin DOMAIN req[r].userDoc

\* C8: a send or verify for an identity whose record is absent from the
\* store (the read answered not-found, or a document with no field set) is
\* answered IdentityNotFound, with no patch and no delivery.
C8_IdentityNotFound ==
  \A r \in Reqs :
    ( /\ IsSend(req[r]) \/ IsVerify(req[r])
      /\ RecordAbsent(r)
      /\ req[r].pc = "done" )
    => (req[r].response = IdentityNotFound /\ NoWriteOrDelivery(r))

(* -------------------------------- C9 ---------------------------------- *)

\* two verifies of the same code that each read the record before the
\* other's clearing patch landed
RacingVerifies(r1, r2) ==
  /\ r1 # r2
  /\ IsVerify(req[r1]) /\ IsVerify(req[r2])
  /\ Get(req[r1].body, "otp") = Get(req[r2].body, "otp")
  /\ req[r1].pc = "done" /\ PatchServed(r1)
  /\ req[r2].pc = "done" /\ PatchServed(r2)
  /\ req[r1].readVer < req[r2].patchVer
  /\ req[r2].readVer < req[r1].patchVer

\* C9: when two verifies of the same still-valid code race, both report
\* success, both clearing patches are applied, and the record ends as a
\* single successful verify leaves it: both fields null, the rest untouched.
C9_DoubleVerify ==
  \A r1, r2 \in Reqs :
    RacingVerifies(r1, r2) =>
      /\ req[r1].response = VerifySuccess /\ req[r2].response = VerifySuccess
      /\ req[r1].patchVer # req[r2].patchVer
      /\ ~SendPatchedBetween(0, ver) =>
           /\ store.fields = ApplyPatch(initial, OtpFields,
                                [currentOtpCode |-> [nullValue |-> Null],
                                 otpExpiresAt |-> [nullValue |-> Null]]).fields
           /\ StoredCodeIs(initial.fields, Candidate(req[r1]))

\* both racing verifies have reported success
C9_Witness ==
  \E r1, r2 \in Reqs :
    /\ RacingVerifies(r1, r2)
    /\ req[r1].response = VerifySuccess /\ req[r2].response = VerifySuccess
    /\ Cleared(store.fields, "currentOtpCode") /\ Cleared(store.fields, "otpExpiresAt")

(* -------------------------------- C10 --------------------------------- *)

Contains(text, part) ==
  \E i \in 1..(Len(text) - Len(part) + 1) : SubSeq(text, i, i + Len(part) - 1) = part

\* a send for an eligible identity, with a destination, none of whose
\* external calls failed
CleanSend(r) ==
  /\ IsSend(req[r]) /\ HasPhone(req[r])
  /\ Found(req[r]) /\ Eligible(req[r].userDoc.fields)
  /\ req[r].pc = "done"
  /\ \A i \in DOMAIN calls[r] : calls[r][i].ok

\* C10: such a send returns {success: true, message: "OTP sent via SMS",
\* expiresIn: "5 minutes"} and makes exactly one delivery, to the requested
\* destination, whose message embeds the 6-digit code the same request
\* stored in currentOtpCode, with otpExpiresAt stored as generation time
\* plus 5 minutes.
C10_SendEndToEnd ==
  \A r \in Reqs :
    CleanSend(r) =>
      /\ req[r].response =
           [status |-> 200,
            body |-> [success |-> TRUE, message |-> "OTP sent via SMS",
                      expiresIn |-> "5 minutes"]]
      /\ Svcs(r) = <<"GET", "PATCH", "SMS">>
      /\ LET stored == calls[r][2].call.body.fields
             sms    == calls[r][3].call
         IN  /\ sms.to = req[r].body.v["phone"].v
             /\ DOMAIN stored["currentOtpCode"] = {"stringValue"}
             /\ LET code == stored["currentOtpCode"].stringValue
                IN  /\ Len(code) = 6
                    /\ \A i \in 1..Len(code) : IsDigit(code[i])
                    /\ Contains(sms.text, code)
             /\ stored["otpExpiresAt"] =
                  [timestampValue |-> ToISOString(req[r].at + 5 * 60 * 1000)]

\* a send has gone through and the record holds the code it delivered
C10_Witness ==
  \E r \in Reqs :
    /\ CleanSend(r)
    /\ req[r].response = SendSuccess
    /\ \E k \in RandSamples :
         /\ StoredCodeIs(store.fields, generateOtp(k))
         /\ Contains(calls[r][3].call.text, generateOtp(k))

\* C11: codec round trip. For every mapping whose values are of the five
\* supported kinds (string, the empty string included; integer, 0 and negatives
\* included; boolean, false included; timestamp; null), the empty mapping
\* included, decoding the encoded mapping gives back an equal mapping.
C11_RoundTrip ==
  (pure.fn = "codec" /\ pure.pc = "decoded") => pure.back = pure.obj

\* a mapping holding the empty string and a negative integer has made the trip
C11_Witness ==
  /\ pure.fn = "codec" /\ pure.pc = "decoded"
  /\ pure.obj = Obj([a |-> Str(<< >>), b |-> Num(-1)])
  /\ pure.doc = [fields |-> [a |-> [stringValue |-> << >>],
                             b |-> [integerValue |-> <<"-", "1">>]]]
  /\ pure.back = pure.obj

\* C12: every token the signer issues, whatever the issue time, has
\* exp - iat = 3600, iat equal to the current time in whole epoch seconds at
\* issue, iss and sub both equal to the configured service principal, and aud
\* the fixed store audience.
C12_TokenClaims ==
  (pure.fn = "signer" /\ pure.pc = "issued") =>
    LET c == pure.token.payload
    IN  /\ c.exp - c.iat = 3600
        /\ c.iat * 1000 <= pure.nowMs /\ pure.nowMs < (c.iat + 1) * 1000
        /\ c.iss = pure.env.FIREBASE_CLIENT_EMAIL
        /\ c.sub = pure.env.FIREBASE_CLIENT_EMAIL
        /\ c.aud = "https://firestore.googleapis.com/"

\* a token issued in the last millisecond of a second
C12_Witness ==
  /\ pure.fn = "signer" /\ pure.pc = "issued"
  /\ pure.nowMs = 7999
  /\ pure.token.payload.iat = 7
  /\ pure.token.payload.exp = 3607
  /\ pure.token.payload.iss = "otp@project-b.iam"

\* C13: whatever value in [0, 1) the random source returns, the generated
\* code is a string of exactly six decimal digits that reads as an integer
\* between 100000 and 999999 inclusive.
C13_SixDigits ==
  (pure.fn = "otp" /\ pure.pc = "generated") =>
    /\ Len(pure.otpCode) = 6
    /\ \A i \in 1..Len(pure.otpCode) : IsDigit(pure.otpCode[i])
    /\ DigitsVal(pure.otpCode) >= 100000
    /\ DigitsVal(pure.otpCode) <= 999999

\* the code generated from the largest value below 1
C13_Witness ==
  /\ pure.fn = "otp" /\ pure.pc = "generated"
  /\ pure.k = RandDen - 1
  /\ pure.otpCode = <<"9", "9", "9", "9", "9", "9">>

(* -------------------------------- C14 --------------------------------- *)

\* the calls of request r to this service: those answered and the one in flight
CallsTo(r, svc) ==
  Cardinality({i \in DOMAIN calls[r] : calls[r][i].call.svc = svc})
    + (IF req[r].out.svc = svc THEN 1 ELSE 0)

\* C14: no internal retry. Within one request each external call (the read
\* of the record, the patch, the SMS delivery) is made at most once, and once
\* a call has failed the request makes no further call and ends in a failure.
C14_NoRetry ==
  \A r \in Reqs :
    /\ \A svc \in {"GET", "PATCH", "SMS"} : CallsTo(r, svc) <= 1
    /\ \A i \in DOMAIN calls[r] :
         ~calls[r][i].ok =>
           /\ i = Len(calls[r])
           /\ req[r].out = NoCall
           /\ req[r].pc = "done"
           /\ req[r].response.status = 500

\* one request ended at its failed read, another at its failed patch
C14_Witness ==
  \E r1, r2 \in Reqs :
    /\ Svcs(r1) = <<"GET">> /\ CallFailed(r1, "GET") /\ req[r1].pc = "done"
    /\ Svcs(r2) = <<"GET", "PATCH">> /\ CallFailed(r2, "PATCH") /\ req[r2].pc = "done"

(* -------------------------------- C15 --------------------------------- *)

\* the response bodies the store and the SMS transport answer a failed call with
RemoteTexts == {"NOT_FOUND", "UNAVAILABLE"}

\* C15: when a document-store call or the SMS delivery fails, the caller
\* receives only the generic internal-failure result: status 500 with the
\* fixed error text, and nothing of the remote service's response body in
\* the response.
C15_GenericFailure ==
  \A r \in Reqs :
    (req[r].pc = "done" /\ \E svc \in {"GET", "PATCH", "SMS"} : CallFailed(r, svc)) =>
      /\ req[r].response.status = 500
      /\ req[r].response.body.error = "Internal server error"
      /\ "details" \in DOMAIN req[r].response.body =>
           \A i \in DOMAIN req[r].response.body.details :
             req[r].response.body.details[i] \notin RemoteTexts

(* -------------------------------- C16 --------------------------------- *)

\* a send without a destination that has returned
PhonelessSend(q) == IsSend(q) /\ ~HasPhone(q) /\ q.pc = "done"

\* C16: a send that carries no destination phone and reads the record of an
\* eligible identity is answered MissingDestination, with no patch and no
\* delivery. The checks run in the order lookup, eligibility, destination:
\* such a send reading an ineligible record is answered NotEligible, and
\* MissingDestination is only ever the answer to a send that found an
\* eligible record.
C16_MissingDestination ==
  \A r \in Reqs :
    LET q == req[r]
    IN  /\ (IsSend(q) /\ ~HasPhone(q) /\ Found(q)) => q.pc \in {"gotDoc", "done"}
        /\ (PhonelessSend(q) /\ Found(q) /\ Eligible(q.userDoc.fields)) =>
             /\ q.response = MissingDestination
             /\ NoWriteOrDelivery(r)
             /\ q.patchVer = 0
        /\ (PhonelessSend(q) /\ Found(q) /\ ~Eligible(q.userDoc.fields)) =>
             q.response = NotEligible
        /\ (q.pc = "done" /\ q.response = MissingDestination) =>
             /\ PhonelessSend(q) /\ Found(q) /\ Eligible(q.userDoc.fields)
             /\ Svcs(r) = <<"GET">>

\* of two sends that read the same eligible record, the one without a
\* destination was answered MissingDestination and the one with a
\* destination went on to store its code
C16_Witness ==
  \E r1, r2 \in Reqs :
    /\ PhonelessSend(req[r1]) /\ Found(req[r1]) /\ Eligible(req[r1].userDoc.fields)
    /\ req[r1].response = MissingDestination
    /\ Svcs(r1) = <<"GET">>
    /\ IsSend(req[r2]) /\ HasPhone(req[r2]) /\ PatchServed(r2)
    /\ req[r2].readVer = req[r1].readVer

(* -------------------------------- C17 --------------------------------- *)

\* the invocation of the iProgSMS worker ended in one of the error outcomes:
\* a method other than POST, an unparsable request body, an unknown action, a
\* non-2xx answer of iprog or an unparsable one
IprogFailed ==
  /\ iprog.pc = "done"
  /\ \/ iprog.method # "POST"
     \/ ~iprog.parsable
     \/ /\ iprog.body.t = "object"
        /\ Get(iprog.body, "action") \notin {Str(SendAction), Str(VerifyAction)}
     \/ /\ iprog.outcome.arrived
        /\ (~IsOk(iprog.outcome.status) \/ ~iprog.outcome.parsable)

\* C17: the iProgSMS worker returns every error outcome as a JSON object of
\* the documented error format: status "error" and a message text.
C17_JsonErrors ==
  IprogFailed =>
    /\ iprog.response.json
    /\ iprog.response.body.t = "object"
    /\ Get(iprog.response.body, "status") = Str(<<"error">>)
    /\ Get(iprog.response.body, "message").t = "string"

(* -------------------------------- C18 --------------------------------- *)

\* currentOtpCode and otpExpiresAt are both set, or both null or missing
PairConsistent(fields) ==
  Cleared(fields, "currentOtpCode") <=> Cleared(fields, "otpExpiresAt")

\* C18: field-pair consistency. If the record starts with currentOtpCode and
\* otpExpiresAt both set or both null, then after any interleaving of send
\* and verify requests, those whose patch or delivery fails included, it
\* never holds a code without an expiry nor an expiry without a code.
C18_PairConsistency ==
  PairConsistent(initial.fields) => PairConsistent(store.fields)

\* a record that started without a code has been written by a send whose
\* delivery then failed and cleared again by a verify
C18_Witness ==
  /\ initial.fields = Profile(TRUE, TRUE)
  /\ ver = 2
  /\ \E r1, r2 \in Reqs :
       /\ PartialFailure(r1) /\ req[r1].patchVer = 1
       /\ IsVerify(req[r2]) /\ req[r2].patchVer = 2
  /\ store.fields["currentOtpCode"] = [nullValue |-> Null]
  /\ store.fields["otpExpiresAt"] = [nullValue |-> Null]

(* -------------------------------- C19 --------------------------------- *)

\* two sends, one after the other, whose patches were both applied, the
\* second right after the first, and which generated different codes
TwoSends(r1, r2) ==
  /\ r1 < r2
  /\ IsSend(req[r1]) /\ PatchServed(r1)
  /\ IsSend(req[r2]) /\ PatchServed(r2)
  /\ req[r2].patchVer = req[r1].patchVer + 1
  /\ req[r1].otpCode # req[r2].otpCode

\* a verify that read the record as send r left it and has returned
VerifiedAfter(r3, r) ==
  /\ IsVerify(req[r3]) /\ Found(req[r3])
  /\ req[r3].readVer = req[r].patchVer
  /\ req[r3].pc = "done"

\* the record holds the code and expiry of send r2, not the code of send r1
HoldsOnlySecond(r1, r2) ==
  /\ StoredCodeIs(store.fields, req[r2].otpCode.v)
  /\ StoredExpiryIs(store.fields, req[r2].otpExpiresAt.v)
  /\ ~StoredCodeIs(store.fields, req[r1].otpCode.v)

\* C19 (as stated): single slot, latest send wins. After two sequential
\* sends whose patches both succeeded and which generated different codes,
\* the record holds only the second code and its expiry; a verify presenting
\* the first code is answered InvalidOrExpired, even before the first code's
\* own expiry; a verify presenting the second code before its expiry succeeds.
C19_AsStated ==
  \A r1, r2 \in SeqReqs :
    TwoSends(r1, r2) =>
      /\ ver = req[r2].patchVer => HoldsOnlySecond(r1, r2)
      /\ \A r3 \in SeqReqs :
           VerifiedAfter(r3, r2) =>
             /\ Get(req[r3].body, "otp") = req[r1].otpCode =>
                  req[r3].response = InvalidOrExpired
             /\ ( /\ Get(req[r3].body, "otp") = req[r2].otpCode
                  /\ req[r3].at < req[r2].otpExpiresAt.v ) =>
                  req[r3].response = VerifySuccess

\* C19 (amended): as above, except that the verify presenting the second
\* code before its expiry succeeds when its clearing patch is served and
\* ends in the internal-failure outcome when that patch fails.
C19_LatestSendWins ==
  \A r1, r2 \in SeqReqs :
    TwoSends(r1, r2) =>
      /\ ver = req[r2].patchVer => HoldsOnlySecond(r1, r2)
      /\ \A r3 \in SeqReqs :
           VerifiedAfter(r3, r2) =>
             /\ Get(req[r3].body, "otp") = req[r1].otpCode =>
                  /\ req[r3].response = InvalidOrExpired
                  /\ NoWriteOrDelivery(r3)
             /\ ( /\ Get(req[r3].body, "otp") = req[r2].otpCode
                  /\ req[r3].at < req[r2].otpExpiresAt.v ) =>
                  /\ PatchServed(r3) => req[r3].response = VerifySuccess
                  /\ ~PatchServed(r3) =>
                       (CallFailed(r3, "PATCH") /\ req[r3].response.status = 500)

\* after two sends with different codes, a verify presenting the first code
\* before that code's expiry was refused, and the second code is still
\* stored and valid
C19_Witness ==
  \E r1, r2, r3 \in SeqReqs :
    /\ TwoSends(r1, r2)
    /\ VerifiedAfter(r3, r2)
    /\ Get(req[r3].body, "otp") = req[r1].otpCode
    /\ req[r3].at < req[r1].otpExpiresAt.v
    /\ req[r3].response = InvalidOrExpired
    /\ ValidFor(store.fields, req[r2].otpCode.v, now)

(* -------------------------------- C20 --------------------------------- *)

\* a verify whose candidate matched an unexpired stored code and whose
\* clearing patch was answered with a failure
ClearFailed(r) ==
  /\ VerifyDecided(req[r])
  /\ ValidFor(req[r].userDoc.fields, Candidate(req[r]), req[r].at)
  /\ CallFailed(r, "PATCH")

\* no request has arrived after request r
Latest(r) == \A p \in SeqReqs : p > r => req[p].pc = "idle"

\* C20: a verify reports success only after its clearing patch has
\* succeeded. When the stored code matches and is unexpired but the clearing
\* patch fails, the request ends in the internal-failure outcome, the record
\* is as it was read, and a later verify presenting the same code before its
\* expiry passes the check again and succeeds once its own patch is served.
C20_SuccessAfterClear ==
  \A r \in SeqReqs :
    /\ (IsVerify(req[r]) /\ req[r].response = VerifySuccess) =>
         /\ Svcs(r) = <<"GET", "PATCH">>
         /\ PatchServed(r)
    /\ ClearFailed(r) =>
         /\ req[r].response.status = 500
         /\ req[r].response.body.error = "Internal server error"
         /\ req[r].patchVer = 0
         /\ Latest(r) => (ver = req[r].readVer /\ store.fields = req[r].userDoc.fields)
         /\ \A r2 \in SeqReqs :
              ( /\ r2 > r
                /\ IsVerify(req[r2]) /\ Found(req[r2])
                /\ req[r2].readVer = req[r].readVer
                /\ req[r2].pc \in {"patch", "done"}
                /\ Get(req[r2].body, "otp") = Get(req[r].body, "otp")
                /\ ValidFor(req[r].userDoc.fields, Candidate(req[r]), req[r2].at) )
              => /\ req[r2].pc = "done" => req[r2].response # InvalidOrExpired
                 /\ PatchServed(r2) => req[r2].response = VerifySuccess

\* a verify failed at its clearing patch, and a later verify of the same
\* code succeeded
C20_Witness ==
  \E r, r2 \in SeqReqs :
    /\ ClearFailed(r) /\ req[r].response.status = 500
    /\ r2 > r
    /\ IsVerify(req[r2]) /\ req[r2].response = VerifySuccess
    /\ Get(req[r2].body, "otp") = Get(req[r].body, "otp")
    /\ req[r2].readVer = req[r].readVer

(* -------------------------------- C21 --------------------------------- *)

\* the code and expiry that send r stored are no longer what the record holds
Removed(r) ==
  ~(StoredCodeIs(store.fields, req[r].otpCode.v)
      /\ StoredExpiryIs(store.fields, req[r].otpExpiresAt.v))

\* the clearing patch of verify v was applied after the patch of send r
ClearedAfter(v, r) ==
  IsVerify(req[v]) /\ PatchServed(v) /\ req[v].patchVer > req[r].patchVer

\* C21: a verify only ever clears the code it matched. A code stored by a
\* send whose patch was applied is removed from the record before its expiry
\* only by a later send or by a successful verify that presented that same
\* code; and a verify that read the record before the send's patch landed
\* does not clear the code of that send with its own, later, clearing patch.
C21_ClearsOnlyMatched ==
  \A r \in Reqs :
    (IsSend(req[r]) /\ PatchServed(r)) =>
      /\ (now < req[r].otpExpiresAt.v /\ Removed(r)) =>
           \E p \in Reqs \ {r} :
             \/ IsSend(req[p]) /\ PatchServed(p) /\ req[p].patchVer > req[r].patchVer
             \/ /\ ClearedAfter(p, r)
                /\ req[p].response = VerifySuccess
                /\ Get(req[p].body, "otp") = req[r].otpCode
      /\ \A v \in Reqs \ {r} :
           ( /\ ClearedAfter(v, r)
             /\ req[v].readVer < req[r].patchVer
             /\ ver = req[v].patchVer )
           => ~Removed(r)

====
